---- MODULE Spec2Model ----
(***************************************************************************)
(* Category Tree Engine of takuyakubo/knowledge-system.                    *)
(*                                                                         *)
(* The state is the `categories` table as the store holds it between       *)
(* requests (every request runs in its own Session, src/backend/app/       *)
(* deps.py get_db), the number of published articles and of papers linked  *)
(* to each category, and the outcome of the last request.  Strings are     *)
(* sequences of one-character strings, so that slug derivation, path       *)
(* composition and the LIKE prefix query are computed, not assumed.        *)
(*                                                                         *)
(* Store semantics the handlers rely on:                                   *)
(*  - sessions are created with autoflush=False (core/database.py:19,      *)
(*    tests/conftest.py:32): a query issued in the middle of a handler     *)
(*    filters on the rows as they were when the request began, while the   *)
(*    objects it returns carry the handler's uncommitted attribute values; *)
(*  - a relationship of an object that is not yet in a Session is not      *)
(*    loaded from its foreign key: `parent` of a freshly constructed       *)
(*    Category(parent_id=p) reads None until the object is persisted;      *)
(*  - `children` is declared cascade="all, delete-orphan": a persistent    *)
(*    category detached from its parent without a new one is deleted by    *)
(*    the flush, with its subtree;                                         *)
(*  - the default store is SQLite (core/config.py:25): foreign keys are    *)
(*    not enforced, `=` and ORDER BY compare bytes, LIKE ignores ASCII     *)
(*    case and treats % and _ as wildcards.                                *)
(***************************************************************************)
EXTENDS Integers, Sequences, FiniteSets, TLC

VARIABLES cats, next_id, articles, papers, last, files, blobs, next_file_id, pending

vars == <<cats, next_id, articles, papers, last, files, blobs, next_file_id, pending>>

(***************************************************************************)
(* Bounds                                                                  *)
(***************************************************************************)
MaxId == 3
MaxContent == 1
\* moves that would store a level above MaxLevel are left out
MaxLevel == 3

NULL == -1

Ids == 1..MaxId

\* ids a client may send: any assigned or unassigned id, and 0
IdInputs == 0..MaxId

ParentInputs == {NULL} \cup IdInputs

Names == { <<"A">>, <<"a", " ", "B">> }

\* <<>> is an absent (or empty) slug
SlugInputs == { <<>>, <<"a">>, <<"a", "-", "1">> }

SortOrders == {0}

(***************************************************************************)
(* Characters                                                              *)
(***************************************************************************)
Upper == {"A", "B", "G", "L", "M", "N", "P"}

Lowers == {"a", "b", "c", "e", "g", "h", "i", "l", "m", "n", "o", "p", "r", "t", "y"}

Digits == {"0", "1", "2", "3", "4", "5", "6", "7", "8", "9"}

Spaces == {" "}

\* str.lower() on one character
lower(c) ==
    CASE c = "A" -> "a"
      [] c = "B" -> "b"
      [] c = "G" -> "g"
      [] c = "L" -> "l"
      [] c = "M" -> "m"
      [] c = "N" -> "n"
      [] c = "P" -> "p"
      [] OTHER -> c

\* code point of a character (byte order of the store's default collation)
ord(c) ==
    CASE c = " " -> 32
      [] c = "%" -> 37
      [] c = "-" -> 45
      [] c = "." -> 46
      [] c = "/" -> 47
      [] c \in Digits -> 48 + (CHOOSE d \in 0..9 : <<"0","1","2","3","4","5","6","7","8","9">>[d + 1] = c)
      [] c = "A" -> 65
      [] c = "B" -> 66
      [] c = "G" -> 71
      [] c = "L" -> 76
      [] c = "M" -> 77
      [] c = "N" -> 78
      [] c = "P" -> 80
      [] c = "_" -> 95
      [] c = "a" -> 97
      [] c = "b" -> 98
      [] c = "c" -> 99
      [] c = "e" -> 101
      [] c = "g" -> 103
      [] c = "h" -> 104
      [] c = "i" -> 105
      [] c = "l" -> 108
      [] c = "m" -> 109
      [] c = "n" -> 110
      [] c = "o" -> 111
      [] c = "p" -> 112
      [] c = "r" -> 114
      [] c = "t" -> 116
      [] c = "y" -> 121
      [] OTHER -> 127

RECURSIVE str_lt(_, _)
\* s < t, comparing code points
str_lt(s, t) ==
    IF t = <<>> THEN FALSE
    ELSE IF s = <<>> THEN TRUE
    ELSE IF ord(Head(s)) # ord(Head(t)) THEN ord(Head(s)) < ord(Head(t))
    ELSE str_lt(Tail(s), Tail(t))

RECURSIVE str_of_int(_)
\* str(n) for n >= 0
str_of_int(n) ==
    IF n < 10 THEN << <<"0","1","2","3","4","5","6","7","8","9">>[n + 1] >>
    ELSE str_of_int(n \div 10) \o << <<"0","1","2","3","4","5","6","7","8","9">>[(n % 10) + 1] >>

startswith(s, p) ==
    /\ Len(p) <= Len(s)
    /\ SubSeq(s, 1, Len(p)) = p

RECURSIVE like(_, _)
\* s LIKE pat
like(s, pat) ==
    IF pat = <<>> THEN s = <<>>
    ELSE IF Head(pat) = "%"
         THEN \E k \in 0..Len(s) : like(SubSeq(s, k + 1, Len(s)), Tail(pat))
    ELSE IF s = <<>> THEN FALSE
    ELSE /\ \/ Head(pat) = "_"
            \/ lower(Head(pat)) = lower(Head(s))
         /\ like(Tail(s), Tail(pat))

\* the value of a relationship or of a lookup that yields None
no_object == [id |-> NULL]

(***************************************************************************)
(* Path Codec                                                              *)
(***************************************************************************)
\* characters matched by \w, \s and the hyphen
WordChars == Upper \cup Lowers \cup Digits \cup {"_"}

RECURSIVE keep_chars(_, _)
\* re.sub of every character outside `keep` by ""
keep_chars(s, keep) ==
    IF s = <<>> THEN <<>>
    ELSE IF Head(s) \in keep THEN <<Head(s)>> \o keep_chars(Tail(s), keep)
    ELSE keep_chars(Tail(s), keep)

RECURSIVE lstrip(_, _)
lstrip(s, chars) ==
    IF s # <<>> /\ Head(s) \in chars THEN lstrip(Tail(s), chars) ELSE s

RECURSIVE rstrip(_, _)
rstrip(s, chars) ==
    IF s # <<>> /\ s[Len(s)] \in chars THEN rstrip(SubSeq(s, 1, Len(s) - 1), chars) ELSE s

strip(s, chars) == rstrip(lstrip(s, chars), chars)

str_lower(s) == [i \in 1..Len(s) |-> lower(s[i])]

RECURSIVE collapse_runs(_, _)
\* re.sub of every maximal run of characters of `chars` by "-"
collapse_runs(s, chars) ==
    IF s = <<>> THEN <<>>
    ELSE IF Head(s) \in chars THEN <<"-">> \o collapse_runs(lstrip(s, chars), chars)
    ELSE <<Head(s)>> \o collapse_runs(Tail(s), chars)

default_slug == <<"c", "a", "t", "e", "g", "o", "r", "y">>

\* Category.create_slug_from_name (NFKD is the identity on the ASCII characters modelled)
create_slug_from_name(name) ==
    LET kept     == keep_chars(name, WordChars \cup Spaces \cup {"-"})
        lowered  == str_lower(strip(kept, Spaces))
        hyphened == collapse_runs(lowered, Spaces \cup {"_"})
        single   == collapse_runs(hyphened, {"-"})
        slug     == strip(single, {"-"})
    IN  IF slug = <<>> THEN default_slug ELSE slug

\* Category.update_path: the path and level computed from the parent object
\* (no_object when the `parent` relationship reads None)
update_path(parent, slug) ==
    IF parent.id # NULL
    THEN [path |-> parent.path \o <<"/">> \o slug, level |-> parent.level + 1]
    ELSE [path |-> <<"/">> \o slug, level |-> 0]

(***************************************************************************)
(* Category Repository: queries over a table `db` (a function from the ids *)
(* of the stored rows to the rows)                                         *)
(***************************************************************************)
\* CRUDBase.get
get(db, id) == IF id \in DOMAIN db THEN db[id] ELSE no_object

\* CRUDCategory.get_by_slug
get_by_slug(db, slug) == {i \in DOMAIN db : db[i].slug = slug}

\* the `parent` relationship of a persistent category
parent_of(db, id) == get(db, db[id].parent_id)

\* the `children` relationship
children(db, id) == {i \in DOMAIN db : db[i].parent_id = id}

RECURSIVE descend(_, _, _)
\* the ids reached from the set `frontier` by following `children` at most n more times
descend(db, frontier, n) ==
    IF n = 0 \/ frontier = {} THEN frontier
    ELSE frontier \cup descend(db, UNION {children(db, i) : i \in frontier}, n - 1)

\* the ids Category.get_all_descendants_ids collects when it returns
get_all_descendants_ids(db, id) ==
    descend(db, children(db, id), Cardinality(DOMAIN db))

\* the parent references below (or at) id form a cycle: the recursion of
\* get_all_descendants_ids and the walk of _update_parent_counts never end
on_cycle(db, id) == id \in get_all_descendants_ids(db, id)

recursion_unbounded(db, id) ==
    \E i \in {id} \cup get_all_descendants_ids(db, id) : on_cycle(db, i)

RECURSIVE ancestors_reach_cycle(_, _, _)
\* the parent walk from id meets a category it has seen
ancestors_reach_cycle(db, id, seen) ==
    IF id \notin DOMAIN db THEN FALSE
    ELSE IF id \in seen THEN TRUE
    ELSE ancestors_reach_cycle(db, db[id].parent_id, seen \cup {id})

\* ORDER BY level, sort_order, name
order_before(a, b) ==
    \/ a.level < b.level
    \/ a.level = b.level /\ a.sort_order < b.sort_order
    \/ a.level = b.level /\ a.sort_order = b.sort_order /\ str_lt(a.name, b.name)

\* the orders in which the store may return the rows `ids` (rows with equal keys in any order)
orderings(db, ids) ==
    {seq \in [1..Cardinality(ids) -> ids] :
        /\ \A i, j \in DOMAIN seq : i # j => seq[i] # seq[j]
        /\ \A i, j \in DOMAIN seq : i < j => ~order_before(db[seq[j]], db[seq[i]])}

\* CRUDCategory.get_descendants(include_self=False): the rows of `db` whose path
\* matches "<path>/%", where path is the attribute value the caller's object carries
get_descendants(db, path) ==
    {i \in DOMAIN db : like(db[i].path, path \o <<"/", "%">>)}

(***************************************************************************)
(* Category Tree Engine                                                    *)
(***************************************************************************)
\* the outcome of a request: the HTTP status the route answers with
\* (0: the handler never returns) and the kind of failure
outcome(op, id, parent_id, slug, status, detail) ==
    [op |-> op, id |-> id, parent_id |-> parent_id, slug |-> slug,
     status |-> status, detail |-> detail]

\* `if parent_id:` is false for None and for 0
given(parent_id) == parent_id # NULL /\ parent_id # 0

\* dedup_slug without the loop: a taken slug is suffixed once, with no second lookup
dedup_slug_unchecked(db, base_slug, slug, counter) ==
    IF get_by_slug(db, slug) = {} THEN slug
    ELSE base_slug \o <<"-">> \o str_of_int(counter)

RECURSIVE dedup_slug(_, _, _, _)
\* the loop of create_with_slug that suffixes the slug until no row has it
dedup_slug(db, base_slug, slug, counter) ==
    IF get_by_slug(db, slug) = {} THEN slug
    ELSE dedup_slug(db, base_slug, base_slug \o <<"-">> \o str_of_int(counter), counter + 1)

\* the `parent` relationship of Category(**obj_in_data) before db.add:
\* the object is in no Session, the relationship is not loaded from parent_id
transient_parent(db, parent_id) == no_object

\* requests that may be in flight together, each in a Session of its own
Requests == {1, 2}

idle == [op |-> "idle"]

Init ==
    /\ cats = << >>
    /\ next_id = 1
    /\ articles = [i \in Ids |-> 0]
    /\ papers = [i \in Ids |-> 0]
    /\ last = outcome("init", NULL, NULL, <<>>, 200, "")
    /\ files = << >>
    /\ blobs = << >>
    /\ next_file_id = 1
    /\ pending = [r \in Requests |-> idle]

\* POST /categories/ -> CRUDCategory.create_with_slug
create_category(name, slug_in, parent_id, is_active, is_system, sort_order) ==
    LET base_slug == IF slug_in = <<>> THEN create_slug_from_name(name) ELSE slug_in
        slug      == dedup_slug(cats, base_slug, base_slug, 1)
        derived   == update_path(transient_parent(cats, parent_id), slug)
        db_obj    == [id |-> next_id, name |-> name, slug |-> slug,
                      parent_id |-> parent_id, level |-> derived.level,
                      path |-> derived.path, is_active |-> is_active,
                      is_system |-> is_system, sort_order |-> sort_order,
                      article_count |-> 0, paper_count |-> 0]
        stored    == cats @@ (next_id :> db_obj)
    IN  /\ next_id <= MaxId
        /\ UNCHANGED <<articles, papers, files, blobs, next_file_id, pending>>
        /\ IF given(parent_id) /\ get(cats, parent_id).id = NULL
           THEN /\ last' = outcome("create", NULL, parent_id, base_slug, 400, "parent not found")
                /\ UNCHANGED <<cats, next_id>>
           ELSE IF given(parent_id) /\ ~get(cats, parent_id).is_active
           THEN /\ last' = outcome("create", NULL, parent_id, base_slug, 400, "inactive parent")
                /\ UNCHANGED <<cats, next_id>>
           ELSE /\ cats' = stored
                /\ next_id' = next_id + 1
                /\ last' = outcome("create", next_id, parent_id, base_slug,
                                   IF ancestors_reach_cycle(stored, parent_id, {}) THEN 0 ELSE 200, "")

\* Category.move_to_parent on the objects `mem` of the Session
move_to_parent(mem, id, new_parent_id) ==
    LET reparented == [mem EXCEPT ![id].parent_id = new_parent_id]
        own        == update_path(get(reparented, new_parent_id), mem[id].slug)
        moved      == [reparented EXCEPT ![id].path = own.path, ![id].level = own.level]
        kids       == children(moved, id)
        others     == [i \in DOMAIN moved |->
                          IF i \in kids \ {id}
                          THEN [moved[i] EXCEPT
                                  !.path = update_path(moved[id], moved[i].slug).path,
                                  !.level = update_path(moved[id], moved[i].slug).level]
                          ELSE moved[i]]
        again      == update_path(others[id], others[id].slug)
    IN  IF id \in kids
        THEN [others EXCEPT ![id].path = again.path, ![id].level = again.level]
        ELSE others

RECURSIVE update_paths(_, _)
\* `for descendant in descendants: descendant.update_path()`
update_paths(mem, seq) ==
    IF seq = <<>> THEN mem
    ELSE LET i == Head(seq)
             p == update_path(parent_of(mem, i), mem[i].slug)
         IN  update_paths([mem EXCEPT ![i].path = p.path, ![i].level = p.level], Tail(seq))

\* POST /categories/{id}/move -> CRUDCategory.move_category
move_category(category_id, new_parent_id) ==
    LET target      == IF given(new_parent_id) THEN new_parent_id ELSE NULL
        old_parent  == IF category_id \in DOMAIN cats THEN parent_of(cats, category_id) ELSE no_object
        moved       == move_to_parent(cats, category_id, target)
        descendants == get_descendants(cats, moved[category_id].path)
        reject(status, detail) ==
            /\ last' = outcome("move", category_id, new_parent_id, <<>>, status, detail)
            /\ UNCHANGED cats
    IN  /\ UNCHANGED <<next_id, articles, papers, files, blobs, next_file_id, pending>>
        /\ IF get(cats, category_id).id = NULL
           THEN reject(404, "not found")
           ELSE IF given(new_parent_id) /\ get(cats, new_parent_id).id = NULL
           THEN reject(400, "parent not found")
           ELSE IF given(new_parent_id) /\ ~get(cats, new_parent_id).is_active
           THEN reject(400, "inactive parent")
           ELSE IF given(new_parent_id) /\ recursion_unbounded(cats, new_parent_id)
           THEN reject(500, "recursion")
           ELSE IF given(new_parent_id) /\ category_id \in get_all_descendants_ids(cats, new_parent_id)
           THEN reject(400, "own descendant")
           ELSE \E seq \in orderings(cats, descendants) :
                LET mem     == update_paths(moved, seq)
                    orphan  == old_parent.id # NULL /\ target = NULL
                    deleted == {category_id} \cup get_all_descendants_ids(mem, category_id)
                    hangs(db) == \/ ancestors_reach_cycle(db, target, {})
                                 \/ ancestors_reach_cycle(db, old_parent.id, {})
                IN  /\ \A i \in DOMAIN mem : mem[i].level <= MaxLevel
                    /\ IF orphan
                       THEN \* the flush deletes the orphan and, by cascade, its subtree;
                            \* the handler then fails on the deleted object
                            /\ cats' = [i \in DOMAIN mem \ deleted |-> mem[i]]
                            /\ last' = outcome("move", category_id, new_parent_id, <<>>, 500, "deleted")
                       ELSE \/ \* rows that reference each other in a cycle: the unit of
                               \* work may refuse to order the flush
                               /\ on_cycle(mem, category_id)
                               /\ reject(500, "circular dependency")
                            \/ /\ cats' = mem
                               /\ last' = outcome("move", category_id, new_parent_id, <<>>,
                                                  IF hangs(mem) THEN 0 ELSE 200, "")

\* POST /categories/{id}/deactivate -> CRUDCategory.deactivate
deactivate_category(category_id) ==
    LET descendants == get_descendants(cats, cats[category_id].path)
    IN  /\ UNCHANGED <<next_id, articles, papers, files, blobs, next_file_id, pending>>
        /\ IF get(cats, category_id).id = NULL
           THEN /\ last' = outcome("deactivate", category_id, NULL, <<>>, 404, "not found")
                /\ UNCHANGED cats
           ELSE /\ cats' = [i \in DOMAIN cats |->
                              IF i \in descendants \cup {category_id}
                              THEN [cats[i] EXCEPT !.is_active = FALSE]
                              ELSE cats[i]]
                /\ last' = outcome("deactivate", category_id, NULL, <<>>, 200, "")

\* activate_category with a cascade: the descendants are activated as well
activate_category_cascading(category_id) ==
    /\ UNCHANGED <<next_id, articles, papers, files, blobs, next_file_id, pending>>
    /\ IF get(cats, category_id).id = NULL
       THEN /\ last' = outcome("activate", category_id, NULL, <<>>, 404, "not found")
            /\ UNCHANGED cats
       ELSE IF parent_of(cats, category_id).id # NULL /\ ~parent_of(cats, category_id).is_active
       THEN /\ last' = outcome("activate", category_id, NULL, <<>>, 400, "inactive parent")
            /\ UNCHANGED cats
       ELSE /\ cats' = [i \in DOMAIN cats |->
                          IF i \in {category_id} \cup children(cats, category_id)
                          THEN [cats[i] EXCEPT !.is_active = TRUE]
                          ELSE cats[i]]
            /\ last' = outcome("activate", category_id, NULL, <<>>, 200, "")

\* POST /categories/{id}/activate -> CRUDCategory.activate
activate_category(category_id) ==
    /\ UNCHANGED <<next_id, articles, papers, files, blobs, next_file_id, pending>>
    /\ IF get(cats, category_id).id = NULL
       THEN /\ last' = outcome("activate", category_id, NULL, <<>>, 404, "not found")
            /\ UNCHANGED cats
       ELSE IF parent_of(cats, category_id).id # NULL /\ ~parent_of(cats, category_id).is_active
       THEN /\ last' = outcome("activate", category_id, NULL, <<>>, 400, "inactive parent")
            /\ UNCHANGED cats
       ELSE /\ cats' = [cats EXCEPT ![category_id].is_active = TRUE]
            /\ last' = outcome("activate", category_id, NULL, <<>>, 200, "")

\* Category.has_children
has_children(db, id) == children(db, id) # {}

\* Category.total_content_count
total_content_count(c) == c.article_count + c.paper_count

\* CRUDBase.remove
remove(db, id) == [i \in DOMAIN db \ {id} |-> db[i]]

\* delete_category without the content guard: the stored counts are not consulted
delete_category_ignoring_content(category_id) ==
    LET reject(status, detail) ==
            /\ last' = outcome("delete", category_id, NULL, <<>>, status, detail)
            /\ UNCHANGED cats
    IN  /\ UNCHANGED <<next_id, articles, papers, files, blobs, next_file_id, pending>>
        /\ IF get(cats, category_id).id = NULL
           THEN reject(404, "not found")
           ELSE IF cats[category_id].is_system
           THEN reject(400, "system")
           ELSE IF has_children(cats, category_id)
           THEN reject(400, "children")
           ELSE /\ cats' = remove(cats, category_id)
                /\ last' = outcome("delete", category_id, NULL, <<>>, 200, "")

\* DELETE /categories/{id}
delete_category(category_id) ==
    LET reject(status, detail) ==
            /\ last' = outcome("delete", category_id, NULL, <<>>, status, detail)
            /\ UNCHANGED cats
    IN  /\ UNCHANGED <<next_id, articles, papers, files, blobs, next_file_id, pending>>
        /\ IF get(cats, category_id).id = NULL
           THEN reject(404, "not found")
           ELSE IF cats[category_id].is_system
           THEN reject(400, "system")
           ELSE IF has_children(cats, category_id)
           THEN reject(400, "children")
           ELSE IF total_content_count(cats[category_id]) > 0
           THEN reject(400, "content")
           ELSE /\ cats' = remove(cats, category_id)
                /\ last' = outcome("delete", category_id, NULL, <<>>, 200, "")

\* the content the model may still link
content_total == LET RECURSIVE sum(_)
                     sum(n) == IF n = 0 THEN 0 ELSE articles[n] + papers[n] + sum(n - 1)
                 IN  sum(MaxId)

\* POST /articles/ with a published, public article of category category_id
create_article(category_id) ==
    /\ content_total < MaxContent
    /\ category_id \in DOMAIN cats
    /\ articles' = [articles EXCEPT ![category_id] = @ + 1]
    /\ last' = outcome("create_article", category_id, NULL, <<>>, 200, "")
    /\ UNCHANGED <<cats, next_id, papers, files, blobs, next_file_id, pending>>

\* POST /papers/ with a paper of category category_id
create_paper(category_id) ==
    /\ content_total < MaxContent
    /\ category_id \in DOMAIN cats
    /\ papers' = [papers EXCEPT ![category_id] = @ + 1]
    /\ last' = outcome("create_paper", category_id, NULL, <<>>, 200, "")
    /\ UNCHANGED <<cats, next_id, articles, files, blobs, next_file_id, pending>>

\* Category.update_counts
update_counts(c) == [c EXCEPT !.article_count = articles[c.id], !.paper_count = papers[c.id]]

\* the answer of the count refresh: {"updated_count": n}
counts_response(updated_count) ==
    [op |-> "update_counts", id |-> NULL, status |-> 200, updated_count |-> updated_count]

\* update_all_counts that counts every category it visited, changed or not
update_all_counts_counting_visited ==
    /\ cats' = [i \in DOMAIN cats |-> update_counts(cats[i])]
    /\ last' = counts_response(Cardinality(DOMAIN cats))
    /\ UNCHANGED <<next_id, articles, papers, files, blobs, next_file_id, pending>>

\* POST /categories/update-counts -> CRUDCategory.update_all_counts
update_all_counts ==
    /\ cats' = [i \in DOMAIN cats |-> update_counts(cats[i])]
    /\ last' = counts_response(Cardinality({i \in DOMAIN cats :
                    \/ update_counts(cats[i]).article_count # cats[i].article_count
                    \/ update_counts(cats[i]).paper_count # cats[i].paper_count}))
    /\ UNCHANGED <<next_id, articles, papers, files, blobs, next_file_id, pending>>

\* the Category schema of a read: the stored row
category_response(op, id, status, article_count, paper_count) ==
    [op |-> op, id |-> id, status |-> status,
     article_count |-> article_count, paper_count |-> paper_count]

\* GET /categories/{id}
get_category(category_id) ==
    /\ last' = IF get(cats, category_id).id = NULL
               THEN category_response("read", category_id, 404, 0, 0)
               ELSE category_response("read", category_id, 200,
                                      cats[category_id].article_count,
                                      cats[category_id].paper_count)
    /\ UNCHANGED <<cats, next_id, articles, papers, files, blobs, next_file_id, pending>>

(***************************************************************************)
(* Content-Addressed File Store                                            *)
(*                                                                         *)
(* A File row is a record of the columns the operations below read or      *)
(* write; mime_type, alt_text, width and height are copied by the code     *)
(* and read by none of these operations.                                   *)
(* The blob store is the directory tree under uploads/: a function from    *)
(* paths to the bytes stored there.                                        *)
(***************************************************************************)
\* file ids the model assigns
MaxFileId == 3

MAX_FILE_SIZE == 100 * 1024 * 1024

ALLOWED_EXTENSIONS ==
    [ image |-> { <<".", "j", "p", "g">>, <<".", "j", "p", "e", "g">>,
                  <<".", "p", "n", "g">>, <<".", "g", "i", "f">>,
                  <<".", "b", "m", "p">>, <<".", "w", "e", "b", "p">>,
                  <<".", "s", "v", "g">> },
      document |-> { <<".", "p", "d", "f">>, <<".", "d", "o", "c">>,
                     <<".", "d", "o", "c", "x">>, <<".", "t", "x", "t">>,
                     <<".", "m", "d">>, <<".", "c", "s", "v">>,
                     <<".", "x", "l", "s">>, <<".", "x", "l", "s", "x">> },
      video |-> { <<".", "m", "p", "4">>, <<".", "a", "v", "i">>,
                  <<".", "m", "o", "v">>, <<".", "w", "m", "v">>,
                  <<".", "f", "l", "v">>, <<".", "w", "e", "b", "m">> },
      audio |-> { <<".", "m", "p", "3">>, <<".", "w", "a", "v">>,
                  <<".", "f", "l", "a", "c">>, <<".", "a", "a", "c">>,
                  <<".", "o", "g", "g">> } ]

\* byte contents a client uploads
Contents == { <<1>>, <<2, 2>> }

\* file names a client uploads under
Filenames == { <<>>,
               <<"a", ".", "p", "n", "g">>,
               <<"b", ".", "P", "N", "G">>,
               <<"a", ".", "m", "p", "3">>,
               <<"a", ".", "b", "a", "m">>,
               <<".", "p", "n", "g">> }

\* UploadFile.size: unknown, the length of the content, or above the ceiling
SizeInputs(content) == {NULL, Len(content), MAX_FILE_SIZE + 1}

\* a description that was not given (None)
no_text == <<"None">>

Descriptions == {no_text, <<"d">>}

\* article and paper ids a client may name
TargetInputs == {NULL, 1, 2}

FileIds == 1..MaxFileId

\* a path that was not set (None)
no_path == << >>

\* hashlib.sha256(content).hexdigest(): a digest that no two contents share
get_file_hash(file_content) == [sha256 |-> file_content]

RECURSIVE rfind(_, _)
\* str.rfind: the last position of c in s, 0 when there is none
rfind(s, c) ==
    IF s = <<>> THEN 0
    ELSE IF s[Len(s)] = c THEN Len(s)
    ELSE rfind(SubSeq(s, 1, Len(s) - 1), c)

\* Path(filename).name: the last component of the path
path_name(filename) == SubSeq(filename, rfind(filename, "/") + 1, Len(filename))

\* Path(filename).suffix: from the last dot of the name, unless the name
\* starts or ends with it
path_suffix(filename) ==
    LET name == path_name(filename)
        i    == rfind(name, ".")
    IN  IF 1 < i /\ i < Len(name) THEN SubSeq(name, i, Len(name)) ELSE <<>>

\* validate_file that lets a name without an allowed extension through as "other"
validate_file_any_extension(filename, size) ==
    LET extension == str_lower(path_suffix(filename))
        ftypes    == {t \in DOMAIN ALLOWED_EXTENSIONS : extension \in ALLOWED_EXTENSIONS[t]}
        verdict(status, detail, file_type) ==
            [status |-> status, detail |-> detail, file_type |-> file_type,
             extension |-> lstrip(extension, {"."})]
    IN  IF filename = <<>> THEN verdict(400, "filename required", "other")
        ELSE IF size # NULL /\ size # 0 /\ size > MAX_FILE_SIZE
        THEN verdict(413, "too large", "other")
        ELSE IF ftypes = {} THEN verdict(200, "", "other")
        ELSE verdict(200, "", CHOOSE t \in ftypes : TRUE)

\* validate_file: the status it raises (200: none) and the type and extension
validate_file(filename, size) ==
    LET extension == str_lower(path_suffix(filename))
        ftypes    == {t \in DOMAIN ALLOWED_EXTENSIONS : extension \in ALLOWED_EXTENSIONS[t]}
        verdict(status, detail, file_type) ==
            [status |-> status, detail |-> detail, file_type |-> file_type,
             extension |-> lstrip(extension, {"."})]
    IN  IF filename = <<>> THEN verdict(400, "filename required", "other")
        ELSE IF size # NULL /\ size # 0 /\ size > MAX_FILE_SIZE
        THEN verdict(413, "too large", "other")
        ELSE IF ftypes = {} THEN verdict(400, "extension not allowed", "other")
        ELSE verdict(200, "", CHOOSE t \in ftypes : TRUE)

\* UPLOAD_DIR / file_type / f"{file_hash}.{extension}"
upload_path(file_type, file_hash, extension) ==
    <<"uploads", file_type, file_hash, extension>>

\* a write that opens the file for appending: bytes already at the path stay
\* and the content is added after them
write_bytes_appending(store, path, content) ==
    [p \in DOMAIN store \cup {path} |->
        IF p # path THEN store[p]
        ELSE IF path \in DOMAIN store THEN store[path] \o content ELSE content]

\* Path.write_bytes: the file holds exactly the bytes written last
write_bytes(store, path, content) ==
    [p \in DOMAIN store \cup {path} |-> IF p = path THEN content ELSE store[p]]

\* Path.unlink
unlink(store, path) == [p \in DOMAIN store \ {path} |-> store[p]]

\* CRUDFile.get_by_hash
get_by_hash(db, file_hash) == {i \in DOMAIN db : db[i].file_hash = file_hash}

\* get_orphaned_files that looks at the article only
get_orphaned_files_without_article(db) == {i \in DOMAIN db : db[i].article_id = NULL}

\* CRUDFile.get_orphaned_files
get_orphaned_files(db) ==
    {i \in DOMAIN db : db[i].article_id = NULL /\ db[i].paper_id = NULL}

\* CRUDBase.create: the row is inserted under the next id
create(db, id, obj_in) == db @@ (id :> obj_in)

\* CRUDBase.update: every field the patch sets is assigned
update(db_obj, obj_in) ==
    [f \in DOMAIN db_obj |-> IF f \in DOMAIN obj_in THEN obj_in[f] ELSE db_obj[f]]

\* the answer to an upload request
upload_response(file_id, filename, size, file_hash, status, detail) ==
    [op |-> "upload", id |-> file_id, filename |-> filename, size |-> size,
     file_hash |-> file_hash, status |-> status, detail |-> detail]

\* the answer to any other request on files
file_response(op, file_id, status, count) ==
    [op |-> op, id |-> file_id, status |-> status, count |-> count]

\* the answer to a request that associates a file with a target
associate_response(op, file_id, target_id, status) ==
    [op |-> op, id |-> file_id, target_id |-> target_id, status |-> status]

\* the row upload_file builds from the request (schemas.FileCreate)
FileCreate(filename, content, v, description, is_public, article_id, paper_id) ==
    [filename |-> filename, original_filename |-> filename,
     file_path |-> upload_path(v.file_type, get_file_hash(content), v.extension),
     file_size |-> Len(content), file_extension |-> v.extension,
     file_hash |-> get_file_hash(content), file_type |-> v.file_type,
     description |-> description, is_public |-> is_public,
     article_id |-> article_id, paper_id |-> paper_id,
     has_thumbnail |-> FALSE, thumbnail_path |-> no_path, download_count |-> 0]

\* upload_file that looks the content up by hash and file name
upload_file_by_name(filename, content, size, description, is_public, article_id, paper_id) ==
    LET v         == validate_file(filename, size)
        file_hash == get_file_hash(content)
        existing  == {i \in get_by_hash(files, file_hash) : files[i].filename = filename}
        file_in   == FileCreate(filename, content, v, description, is_public,
                                article_id, paper_id)
    IN  /\ UNCHANGED <<cats, next_id, articles, papers, pending>>
        /\ IF v.status # 200
           THEN /\ last' = upload_response(NULL, filename, size, file_hash, v.status, v.detail)
                /\ UNCHANGED <<files, blobs, next_file_id>>
           ELSE IF existing # {}
           THEN /\ last' = upload_response(CHOOSE i \in existing : TRUE, filename, size,
                                           file_hash, 200, "existing")
                /\ UNCHANGED <<files, blobs, next_file_id>>
           ELSE /\ next_file_id <= MaxFileId
                /\ blobs' = write_bytes(blobs, file_in.file_path, content)
                /\ files' = create(files, next_file_id, file_in)
                /\ next_file_id' = next_file_id + 1
                /\ last' = upload_response(next_file_id, filename, size, file_hash, 200, "created")

\* upload_file that takes the description and the visibility of the request
\* over to the row it finds
upload_file_refreshing(filename, content, size, description, is_public, article_id, paper_id) ==
    LET v         == validate_file(filename, size)
        file_hash == get_file_hash(content)
        existing  == get_by_hash(files, file_hash)
        file_in   == FileCreate(filename, content, v, description, is_public,
                                article_id, paper_id)
        found     == CHOOSE i \in existing : TRUE
    IN  /\ UNCHANGED <<cats, next_id, articles, papers, pending>>
        /\ IF v.status # 200
           THEN /\ last' = upload_response(NULL, filename, size, file_hash, v.status, v.detail)
                /\ UNCHANGED <<files, blobs, next_file_id>>
           ELSE IF existing # {}
           THEN /\ last' = upload_response(found, filename, size, file_hash, 200, "existing")
                /\ files' = [files EXCEPT ![found].description = description,
                                          ![found].is_public = is_public]
                /\ UNCHANGED <<blobs, next_file_id>>
           ELSE /\ next_file_id <= MaxFileId
                /\ blobs' = write_bytes(blobs, file_in.file_path, content)
                /\ files' = create(files, next_file_id, file_in)
                /\ next_file_id' = next_file_id + 1
                /\ last' = upload_response(next_file_id, filename, size, file_hash, 200, "created")

\* POST /files/upload
upload_file(filename, content, size, description, is_public, article_id, paper_id) ==
    LET v         == validate_file(filename, size)
        file_hash == get_file_hash(content)
        existing  == get_by_hash(files, file_hash)
        file_in   == FileCreate(filename, content, v, description, is_public,
                                article_id, paper_id)
    IN  /\ UNCHANGED <<cats, next_id, articles, papers, pending>>
        /\ IF v.status # 200
           THEN /\ last' = upload_response(NULL, filename, size, file_hash, v.status, v.detail)
                /\ UNCHANGED <<files, blobs, next_file_id>>
           ELSE IF existing # {}
           THEN /\ last' = upload_response(CHOOSE i \in existing : TRUE, filename, size,
                                           file_hash, 200, "existing")
                /\ UNCHANGED <<files, blobs, next_file_id>>
           ELSE /\ next_file_id <= MaxFileId
                /\ blobs' = write_bytes(blobs, file_in.file_path, content)
                /\ files' = create(files, next_file_id, file_in)
                /\ next_file_id' = next_file_id + 1
                /\ last' = upload_response(next_file_id, filename, size, file_hash, 200, "created")

\* PUT /files/{file_id}
update_file(file_id, file_in) ==
    /\ UNCHANGED <<cats, next_id, articles, papers, pending, blobs, next_file_id>>
    /\ IF file_id \notin DOMAIN files
       THEN /\ last' = file_response("update_file", file_id, 404, 0)
            /\ UNCHANGED files
       ELSE /\ files' = [files EXCEPT ![file_id] = update(files[file_id], file_in)]
            /\ last' = file_response("update_file", file_id, 200, 0)

\* POST /files/{file_id}/associate/article/{article_id}
\*   -> CRUDFile.associate_with_article
associate_file_with_article(file_id, article_id) ==
    /\ UNCHANGED <<cats, next_id, articles, papers, pending, blobs, next_file_id>>
    /\ IF file_id \notin DOMAIN files
       THEN /\ last' = associate_response("associate_article", file_id, article_id, 404)
            /\ UNCHANGED files
       ELSE /\ files' = [files EXCEPT ![file_id].article_id = article_id,
                                      ![file_id].paper_id = NULL]
            /\ last' = associate_response("associate_article", file_id, article_id, 200)

\* associate_with_paper without the line that clears the article
associate_file_with_paper_keeping_article(file_id, paper_id) ==
    /\ UNCHANGED <<cats, next_id, articles, papers, pending, blobs, next_file_id>>
    /\ IF file_id \notin DOMAIN files
       THEN /\ last' = associate_response("associate_paper", file_id, paper_id, 404)
            /\ UNCHANGED files
       ELSE /\ files' = [files EXCEPT ![file_id].paper_id = paper_id]
            /\ last' = associate_response("associate_paper", file_id, paper_id, 200)

\* POST /files/{file_id}/associate/paper/{paper_id}
\*   -> CRUDFile.associate_with_paper
associate_file_with_paper(file_id, paper_id) ==
    /\ UNCHANGED <<cats, next_id, articles, papers, pending, blobs, next_file_id>>
    /\ IF file_id \notin DOMAIN files
       THEN /\ last' = associate_response("associate_paper", file_id, paper_id, 404)
            /\ UNCHANGED files
       ELSE /\ files' = [files EXCEPT ![file_id].paper_id = paper_id,
                                      ![file_id].article_id = NULL]
            /\ last' = associate_response("associate_paper", file_id, paper_id, 200)

\* DELETE /files/{file_id}/associations -> CRUDFile.remove_associations
remove_file_associations(file_id) ==
    /\ UNCHANGED <<cats, next_id, articles, papers, pending, blobs, next_file_id>>
    /\ IF file_id \notin DOMAIN files
       THEN /\ last' = file_response("remove_associations", file_id, 404, 0)
            /\ UNCHANGED files
       ELSE /\ files' = [files EXCEPT ![file_id].article_id = NULL,
                                      ![file_id].paper_id = NULL]
            /\ last' = file_response("remove_associations", file_id, 200, 0)

\* DELETE /files/cleanup/orphaned -> CRUDFile.cleanup_orphaned_files
\* (the rows are deleted, the files under uploads/ are left in place)
cleanup_orphaned_files ==
    LET orphaned_files == get_orphaned_files(files)
    IN  /\ UNCHANGED <<cats, next_id, articles, papers, pending, blobs, next_file_id>>
        /\ files' = [i \in DOMAIN files \ orphaned_files |-> files[i]]
        /\ last' = file_response("cleanup", NULL, 200, Cardinality(orphaned_files))

\* delete_file that leaves the thumbnail where it is
delete_file_keeping_thumbnail(file_id) ==
    LET file_obj   == files[file_id]
        unlinked   == unlink(blobs, file_obj.file_path)
    IN  /\ UNCHANGED <<cats, next_id, articles, papers, pending, next_file_id>>
        /\ IF file_id \notin DOMAIN files
           THEN /\ last' = file_response("delete_file", file_id, 404, 0)
                /\ UNCHANGED <<files, blobs>>
           ELSE /\ blobs' = unlinked
                /\ files' = remove(files, file_id)
                /\ last' = file_response("delete_file", file_id, 200, 0)

\* DELETE /files/{file_id}
delete_file(file_id) ==
    LET file_obj   == files[file_id]
        unlinked   == unlink(blobs, file_obj.file_path)
    IN  /\ UNCHANGED <<cats, next_id, articles, papers, pending, next_file_id>>
        /\ IF file_id \notin DOMAIN files
           THEN /\ last' = file_response("delete_file", file_id, 404, 0)
                /\ UNCHANGED <<files, blobs>>
           ELSE /\ blobs' = IF file_obj.thumbnail_path # no_path
                            THEN unlink(unlinked, file_obj.thumbnail_path)
                            ELSE unlinked
                /\ files' = remove(files, file_id)
                /\ last' = file_response("delete_file", file_id, 200, 0)

\* the thumbnail of an image is derived and recorded on its row
store_thumbnail(file_id) ==
    LET file_obj == files[file_id]
        path     == <<"uploads", "thumbnails", file_obj.file_hash, <<"j", "p", "g">>>>
    IN  /\ UNCHANGED <<cats, next_id, articles, papers, pending, next_file_id>>
        /\ file_id \in DOMAIN files
        /\ file_obj.file_type = "image"
        /\ ~file_obj.has_thumbnail
        /\ file_obj.file_path \in DOMAIN blobs
        /\ blobs' = write_bytes(blobs, path, <<0>>)
        /\ files' = [files EXCEPT ![file_id].has_thumbnail = TRUE,
                                  ![file_id].thumbnail_path = path]
        /\ last' = file_response("store_thumbnail", file_id, 200, 0)

\* a file under uploads/ is removed behind the store's back
lose_blob(path) ==
    /\ UNCHANGED <<cats, next_id, articles, papers, pending, files, next_file_id>>
    /\ path \in DOMAIN blobs
    /\ blobs' = unlink(blobs, path)
    /\ last' = file_response("lose_blob", NULL, 200, 0)

\* the downloads the model counts per file
MaxDownloads == 2

\* File.increment_download_count
increment_download_count(file_obj) ==
    [file_obj EXCEPT !.download_count = @ + 1]

\* download_file that counts before it checks: a refused download of a known
\* file is counted as well
download_file_counting_refused(file_id) ==
    /\ UNCHANGED <<cats, next_id, articles, papers, pending, blobs, next_file_id>>
    /\ file_id \in DOMAIN files => files[file_id].download_count < MaxDownloads
    /\ IF file_id \notin DOMAIN files
       THEN /\ last' = file_response("download", file_id, 404, 0)
            /\ UNCHANGED files
       ELSE /\ files' = [files EXCEPT ![file_id] = increment_download_count(@)]
            /\ last' = file_response("download", file_id,
                                     IF ~files[file_id].is_public THEN 403
                                     ELSE IF files[file_id].file_path \notin DOMAIN blobs THEN 404
                                     ELSE 200, 0)

\* GET /files/{file_id}/download
download_file(file_id) ==
    /\ UNCHANGED <<cats, next_id, articles, papers, pending, blobs, next_file_id>>
    /\ file_id \in DOMAIN files => files[file_id].download_count < MaxDownloads
    /\ IF file_id \notin DOMAIN files
       THEN /\ last' = file_response("download", file_id, 404, 0)
            /\ UNCHANGED files
       ELSE IF ~files[file_id].is_public
       THEN /\ last' = file_response("download", file_id, 403, 0)
            /\ UNCHANGED files
       ELSE IF files[file_id].file_path \notin DOMAIN blobs
       THEN /\ last' = file_response("download", file_id, 404, 0)
            /\ UNCHANGED files
       ELSE /\ files' = [files EXCEPT ![file_id] = increment_download_count(@)]
            /\ last' = file_response("download", file_id, 200, 0)

\* POST /files/bulk/visibility -> CRUDFile.bulk_update_visibility
bulk_update_file_visibility(file_ids, is_public) ==
    /\ UNCHANGED <<cats, next_id, articles, papers, pending, blobs, next_file_id>>
    /\ files' = [i \in DOMAIN files |->
                    IF i \in file_ids THEN [files[i] EXCEPT !.is_public = is_public]
                    ELSE files[i]]
    /\ last' = file_response("visibility", NULL, 200, Cardinality(file_ids \cap DOMAIN files))

\* fields a CategoryUpdate may set
CategoryPatches ==
    { [name |-> <<"B">>], [slug |-> <<"b">>], [slug |-> <<"a">>], [is_active |-> FALSE],
      [parent_id |-> NULL], [parent_id |-> 1], [parent_id |-> 2],
      [name |-> <<"B">>, slug |-> <<"b">>, parent_id |-> 1] }

\* PUT /categories/{category_id}
update_category(category_id, category_in) ==
    LET reject(status, detail) ==
            /\ last' = outcome("update", category_id, NULL, <<>>, status, detail)
            /\ UNCHANGED cats
        updated == update(cats[category_id], category_in)
    IN  /\ UNCHANGED <<next_id, articles, papers, files, blobs, next_file_id, pending>>
        /\ IF get(cats, category_id).id = NULL
           THEN reject(404, "not found")
           ELSE IF get_by_slug(cats, updated.slug) \ {category_id} # {}
           THEN \* the UPDATE violates the unique index on slug
                reject(500, "unique constraint")
           ELSE /\ cats' = [cats EXCEPT ![category_id] = updated]
                /\ last' = outcome("update", category_id, NULL, <<>>, 200, "")

(***************************************************************************)
(* Requests in flight                                                      *)
(*                                                                         *)
(* Each request runs in a Session of its own (deps.get_db). A handler      *)
(* reads the rows the others have committed; its own row reaches the       *)
(* table at db.commit(), where the unique indexes are enforced.            *)
(***************************************************************************)
\* POST /categories/, up to db.add: the slug is chosen against the rows
\* committed so far and the row is built
create_category_begin(r, name, slug_in, parent_id, is_active, is_system, sort_order) ==
    LET base_slug == IF slug_in = <<>> THEN create_slug_from_name(name) ELSE slug_in
        slug      == dedup_slug(cats, base_slug, base_slug, 1)
        derived   == update_path(transient_parent(cats, parent_id), slug)
        db_obj    == [id |-> NULL, name |-> name, slug |-> slug,
                      parent_id |-> parent_id, level |-> derived.level,
                      path |-> derived.path, is_active |-> is_active,
                      is_system |-> is_system, sort_order |-> sort_order,
                      article_count |-> 0, paper_count |-> 0]
    IN  /\ pending[r] = idle
        /\ UNCHANGED <<cats, next_id, articles, papers, files, blobs, next_file_id>>
        /\ IF given(parent_id) /\ get(cats, parent_id).id = NULL
           THEN /\ last' = outcome("create", NULL, parent_id, base_slug, 400, "parent not found")
                /\ UNCHANGED pending
           ELSE IF given(parent_id) /\ ~get(cats, parent_id).is_active
           THEN /\ last' = outcome("create", NULL, parent_id, base_slug, 400, "inactive parent")
                /\ UNCHANGED pending
           ELSE /\ pending' = [pending EXCEPT ![r] = [op |-> "create", base_slug |-> base_slug,
                                                      db_obj |-> db_obj]]
                /\ last' = outcome("create_begin", NULL, parent_id, base_slug, 0, "")

\* create_category_commit on a table without the unique index on slug
create_category_commit_unconstrained(r) ==
    LET db_obj == [pending[r].db_obj EXCEPT !.id = next_id]
        stored == cats @@ (next_id :> db_obj)
    IN  /\ pending[r].op = "create"
        /\ pending' = [pending EXCEPT ![r] = idle]
        /\ UNCHANGED <<articles, papers, files, blobs, next_file_id>>
        /\ next_id <= MaxId
        /\ cats' = stored
        /\ next_id' = next_id + 1
        /\ last' = outcome("create", next_id, db_obj.parent_id, pending[r].base_slug,
                           IF ancestors_reach_cycle(stored, db_obj.parent_id, {})
                           THEN 0 ELSE 200, "")

\* POST /categories/, db.commit and after: the INSERT fails on the unique
\* index when another request has committed the slug in between
create_category_commit(r) ==
    LET db_obj == [pending[r].db_obj EXCEPT !.id = next_id]
        stored == cats @@ (next_id :> db_obj)
    IN  /\ pending[r].op = "create"
        /\ pending' = [pending EXCEPT ![r] = idle]
        /\ UNCHANGED <<articles, papers, files, blobs, next_file_id>>
        /\ IF get_by_slug(cats, db_obj.slug) # {}
           THEN /\ last' = outcome("create", NULL, db_obj.parent_id, pending[r].base_slug,
                                   500, "unique constraint")
                /\ UNCHANGED <<cats, next_id>>
           ELSE /\ next_id <= MaxId
                /\ cats' = stored
                /\ next_id' = next_id + 1
                /\ last' = outcome("create", next_id, db_obj.parent_id, pending[r].base_slug,
                                   IF ancestors_reach_cycle(stored, db_obj.parent_id, {})
                                   THEN 0 ELSE 200, "")

\* POST /files/upload, up to the lookup by hash
upload_file_begin(r, filename, content, size, description, is_public, article_id, paper_id) ==
    LET v         == validate_file(filename, size)
        file_hash == get_file_hash(content)
        existing  == get_by_hash(files, file_hash)
        file_in   == FileCreate(filename, content, v, description, is_public,
                                article_id, paper_id)
    IN  /\ pending[r] = idle
        /\ UNCHANGED <<cats, next_id, articles, papers, files, blobs, next_file_id>>
        /\ IF v.status # 200
           THEN /\ last' = upload_response(NULL, filename, size, file_hash, v.status, v.detail)
                /\ UNCHANGED pending
           ELSE IF existing # {}
           THEN /\ last' = upload_response(CHOOSE i \in existing : TRUE, filename, size,
                                           file_hash, 200, "existing")
                /\ UNCHANGED pending
           ELSE /\ pending' = [pending EXCEPT ![r] = [op |-> "upload", size |-> size,
                                                      content |-> content, file_in |-> file_in]]
                /\ last' = upload_response(NULL, filename, size, file_hash, 0, "")

\* POST /files/upload, from save_uploaded_file on: the file is written and
\* the row inserted; the INSERT fails on the unique index on file_hash when
\* another request has committed the same content in between
upload_file_finish(r) ==
    LET file_in == pending[r].file_in
    IN  /\ pending[r].op = "upload"
        /\ pending' = [pending EXCEPT ![r] = idle]
        /\ UNCHANGED <<cats, next_id, articles, papers>>
        /\ blobs' = write_bytes(blobs, file_in.file_path, pending[r].content)
        /\ IF get_by_hash(files, file_in.file_hash) # {}
           THEN /\ last' = upload_response(NULL, file_in.filename, pending[r].size,
                                           file_in.file_hash, 500, "unique constraint")
                /\ UNCHANGED <<files, next_file_id>>
           ELSE /\ next_file_id <= MaxFileId
                /\ files' = create(files, next_file_id, file_in)
                /\ next_file_id' = next_file_id + 1
                /\ last' = upload_response(next_file_id, file_in.filename, pending[r].size,
                                           file_in.file_hash, 200, "created")

\* POST /files/upload, the blob-store step: save_uploaded_file writes the file
upload_file_write(r) ==
    /\ pending[r].op = "upload"
    /\ blobs' = write_bytes(blobs, pending[r].file_in.file_path, pending[r].content)
    /\ pending' = [pending EXCEPT ![r].op = "upload_written"]
    /\ last' = upload_response(NULL, pending[r].file_in.filename, pending[r].size,
                               pending[r].file_in.file_hash, 0, "written")
    /\ UNCHANGED <<cats, next_id, articles, papers, files, next_file_id>>

\* POST /files/upload, the metadata step: the row is inserted; the INSERT fails
\* on the unique index on file_hash when the content has a row by now
upload_file_insert(r) ==
    LET file_in == pending[r].file_in
    IN  /\ pending[r].op = "upload_written"
        /\ pending' = [pending EXCEPT ![r] = idle]
        /\ UNCHANGED <<cats, next_id, articles, papers, blobs>>
        /\ IF get_by_hash(files, file_in.file_hash) # {}
           THEN /\ last' = upload_response(NULL, file_in.filename, pending[r].size,
                                           file_in.file_hash, 500, "unique constraint")
                /\ UNCHANGED <<files, next_file_id>>
           ELSE /\ next_file_id <= MaxFileId
                /\ files' = create(files, next_file_id, file_in)
                /\ next_file_id' = next_file_id + 1
                /\ last' = upload_response(next_file_id, file_in.filename, pending[r].size,
                                           file_in.file_hash, 200, "created")

\* DELETE /files/{file_id}, up to the lookup: the row is loaded into the Session
delete_file_begin(r, file_id) ==
    /\ pending[r] = idle
    /\ UNCHANGED <<cats, next_id, articles, papers, files, blobs, next_file_id>>
    /\ IF file_id \notin DOMAIN files
       THEN /\ last' = file_response("delete_file", file_id, 404, 0)
            /\ UNCHANGED pending
       ELSE /\ pending' = [pending EXCEPT ![r] = [op |-> "delete", id |-> file_id,
                                                  file_obj |-> files[file_id]]]
            /\ last' = file_response("delete_file", file_id, 0, 0)

\* DELETE /files/{file_id}, the blob-store step: the file and the thumbnail
\* named by the loaded row are unlinked if they exist
delete_file_unlink(r) ==
    LET file_obj == pending[r].file_obj
        unlinked == unlink(blobs, file_obj.file_path)
    IN  /\ pending[r].op = "delete"
        /\ blobs' = IF file_obj.thumbnail_path # no_path
                    THEN unlink(unlinked, file_obj.thumbnail_path)
                    ELSE unlinked
        /\ pending' = [pending EXCEPT ![r].op = "delete_unlinked"]
        /\ last' = file_response("delete_file", pending[r].id, 0, 0)
        /\ UNCHANGED <<cats, next_id, articles, papers, files, next_file_id>>

\* DELETE /files/{file_id}, the metadata step: crud remove of the row
delete_file_remove(r) ==
    /\ pending[r].op = "delete_unlinked"
    /\ files' = remove(files, pending[r].id)
    /\ pending' = [pending EXCEPT ![r] = idle]
    /\ last' = file_response("delete_file", pending[r].id, 200, 0)
    /\ UNCHANGED <<cats, next_id, articles, papers, blobs, next_file_id>>

\* ORDER BY sort_order, name
children_before(a, b) ==
    \/ a.sort_order < b.sort_order
    \/ a.sort_order = b.sort_order /\ str_lt(a.name, b.name)

\* the rows seq[skip + 1 .. skip + limit]: OFFSET skip LIMIT limit
page(seq, skip, limit) ==
    SubSeq(seq, skip + 1, IF skip + limit < Len(seq) THEN skip + limit ELSE Len(seq))

\* the orders of the rows `ids` with no pair out of ORDER BY sort_order, name
sorted_children(db, ids) ==
    {seq \in [1..Cardinality(ids) -> ids] :
        /\ \A i, j \in DOMAIN seq : i # j => seq[i] # seq[j]
        /\ \A i, j \in DOMAIN seq : i < j => ~children_before(db[seq[j]], db[seq[i]])}

\* get_children with no ORDER BY: the rows come in any order
get_children_unordered(db, parent_id, skip, limit) ==
    LET ids == {i \in DOMAIN db : db[i].parent_id = parent_id /\ db[i].is_active}
    IN  {page(seq, skip, limit) :
            seq \in {q \in [1..Cardinality(ids) -> ids] :
                        \A i, j \in DOMAIN q : i # j => q[i] # q[j]}}

\* CRUDCategory.get_children: the lists of ids the query may return
get_children(db, parent_id, skip, limit) ==
    LET ids == {i \in DOMAIN db : db[i].parent_id = parent_id /\ db[i].is_active}
    IN  {page(seq, skip, limit) : seq \in sorted_children(db, ids)}

\* the answer of the children route: the rows in the order returned
children_response(id, status, skip, limit, items) ==
    [op |-> "children", id |-> id, status |-> status, skip |-> skip, limit |-> limit,
     items |-> items]

\* the default of the query parameter `limit`
DefaultLimit == 100

\* GET /categories/{id}/children
get_category_children(category_id, skip, limit) ==
    /\ IF get(cats, category_id).id = NULL
       THEN last' = children_response(category_id, 404, skip, limit, <<>>)
       ELSE \E items \in get_children(cats, category_id, skip, limit) :
               last' = children_response(category_id, 200, skip, limit, items)
    /\ UNCHANGED <<cats, next_id, articles, papers, files, blobs, next_file_id, pending>>

\* patches a FileUpdate may carry
FilePatches ==
    { [description |-> <<"d">>], [is_public |-> FALSE] }
    \cup { [article_id |-> a] : a \in TargetInputs }
    \cup { [paper_id |-> p] : p \in TargetInputs }
    \cup { [article_id |-> a, paper_id |-> p] : a \in {1}, p \in {NULL, 2} }

\* the whole engine
Next ==
    \/ \E name \in Names, slug \in SlugInputs, parent_id \in ParentInputs,
          is_active \in BOOLEAN, is_system \in BOOLEAN, sort_order \in SortOrders :
          create_category(name, slug, parent_id, is_active, is_system, sort_order)
    \/ \E category_id \in IdInputs, new_parent_id \in ParentInputs :
          move_category(category_id, new_parent_id)
    \/ \E category_id \in IdInputs : deactivate_category(category_id)
    \/ \E category_id \in IdInputs : activate_category(category_id)
    \/ \E category_id \in IdInputs : delete_category(category_id)
    \/ \E category_id \in Ids : create_article(category_id)
    \/ \E category_id \in Ids : create_paper(category_id)
    \/ update_all_counts
    \/ \E category_id \in IdInputs, category_in \in CategoryPatches :
          update_category(category_id, category_in)
    \/ \E filename \in Filenames, content \in Contents, description \in Descriptions,
          is_public \in BOOLEAN, article_id \in TargetInputs, paper_id \in TargetInputs :
          \E size \in SizeInputs(content) :
             upload_file(filename, content, size, description, is_public, article_id, paper_id)
    \/ \E file_id \in FileIds, file_in \in FilePatches : update_file(file_id, file_in)
    \/ \E file_id \in FileIds, article_id \in TargetInputs \ {NULL} :
          associate_file_with_article(file_id, article_id)
    \/ \E file_id \in FileIds, paper_id \in TargetInputs \ {NULL} :
          associate_file_with_paper(file_id, paper_id)
    \/ \E file_id \in FileIds : remove_file_associations(file_id)
    \/ cleanup_orphaned_files
    \/ \E file_id \in FileIds : delete_file(file_id)
    \/ \E category_id \in IdInputs : get_category(category_id)
    \/ \E category_id \in IdInputs, skip \in {0, 1}, limit \in {1, DefaultLimit} :
          get_category_children(category_id, skip, limit)
    \/ \E file_id \in FileIds : download_file(file_id)
    \/ \E file_ids \in SUBSET FileIds, is_public \in BOOLEAN :
          bulk_update_file_visibility(file_ids, is_public)

Spec == Init /\ [][Next]_vars

\* create and move requests only (active, non-system categories)
NextTree ==
    \/ \E name \in Names, parent_id \in ParentInputs, sort_order \in SortOrders :
          create_category(name, <<>>, parent_id, TRUE, FALSE, sort_order)
    \/ \E category_id \in IdInputs, new_parent_id \in ParentInputs :
          move_category(category_id, new_parent_id)

SpecTree == Init /\ [][NextTree]_vars

\* create requests only, with and without a requested slug
NextSlug ==
    \E name \in Names, slug \in SlugInputs, parent_id \in ParentInputs,
       sort_order \in SortOrders :
       create_category(name, slug, parent_id, TRUE, FALSE, sort_order)

SpecSlug == Init /\ [][NextSlug]_vars

\* create, move, deactivate and activate requests
NextActive ==
    \/ \E parent_id \in ParentInputs, is_active \in BOOLEAN, sort_order \in SortOrders :
          create_category(<<"A">>, <<>>, parent_id, is_active, FALSE, sort_order)
    \/ \E category_id \in IdInputs, new_parent_id \in ParentInputs :
          move_category(category_id, new_parent_id)
    \/ \E category_id \in IdInputs : deactivate_category(category_id)
    \/ \E category_id \in IdInputs : activate_category(category_id)

SpecActive == Init /\ [][NextActive]_vars

\* create and delete requests, content and the count refresh
NextDelete ==
    \/ \E parent_id \in ParentInputs, is_active \in BOOLEAN, is_system \in BOOLEAN,
          sort_order \in SortOrders :
          create_category(<<"A">>, <<>>, parent_id, is_active, is_system, sort_order)
    \/ \E category_id \in IdInputs : delete_category(category_id)
    \/ \E category_id \in Ids : create_article(category_id)
    \/ \E category_id \in Ids : create_paper(category_id)
    \/ update_all_counts

SpecDelete == Init /\ [][NextDelete]_vars

\* the form fields sent along with an uploaded file
UploadForms ==
    { [description |-> no_text, is_public |-> TRUE, article_id |-> NULL, paper_id |-> NULL],
      [description |-> <<"d">>, is_public |-> FALSE, article_id |-> 1, paper_id |-> NULL] }

\* uploads, with the removal of orphaned rows in between
NextUpload ==
    \/ \E filename \in Filenames, content \in Contents, form \in UploadForms :
          \E size \in SizeInputs(content) :
             upload_file(filename, content, size, form.description, form.is_public,
                         form.article_id, form.paper_id)
    \/ cleanup_orphaned_files

SpecUpload == Init /\ [][NextUpload]_vars

\* uploads, updates and associations
NextAssociate ==
    \/ \E content \in Contents, article_id \in TargetInputs, paper_id \in TargetInputs :
          upload_file(<<"a", ".", "p", "n", "g">>, content, NULL, no_text, TRUE,
                      article_id, paper_id)
    \/ \E file_id \in FileIds, file_in \in FilePatches : update_file(file_id, file_in)
    \/ \E file_id \in FileIds, article_id \in TargetInputs \ {NULL} :
          associate_file_with_article(file_id, article_id)
    \/ \E file_id \in FileIds, paper_id \in TargetInputs \ {NULL} :
          associate_file_with_paper(file_id, paper_id)
    \/ \E file_id \in FileIds : remove_file_associations(file_id)
    \/ cleanup_orphaned_files

SpecAssociate == Init /\ [][NextAssociate]_vars

\* uploads and deletions, with thumbnails and with files that went missing
NextFileDelete ==
    \/ \E filename \in { <<"a", ".", "p", "n", "g">>, <<"a", ".", "m", "p", "3">> },
          content \in Contents, article_id \in {NULL, 1} :
          upload_file(filename, content, NULL, no_text, TRUE, article_id, NULL)
    \/ \E file_id \in FileIds : store_thumbnail(file_id)
    \/ \E path \in DOMAIN blobs : lose_blob(path)
    \/ \E file_id \in FileIds : delete_file(file_id)
    \/ cleanup_orphaned_files

SpecFileDelete == Init /\ [][NextFileDelete]_vars

\* create and update requests on categories
NextUpdate ==
    \/ \E parent_id \in {NULL, 1}, sort_order \in SortOrders :
          create_category(<<"A">>, <<>>, parent_id, TRUE, FALSE, sort_order)
    \/ \E category_id \in IdInputs, category_in \in CategoryPatches :
          update_category(category_id, category_in)

SpecUpdate == Init /\ [][NextUpdate]_vars

\* create requests whose lookups and commits interleave
NextCreateRace ==
    \/ \E r \in Requests, slug \in SlugInputs, parent_id \in {NULL, 1},
          sort_order \in SortOrders :
          create_category_begin(r, <<"A">>, slug, parent_id, TRUE, FALSE, sort_order)
    \/ \E r \in Requests : create_category_commit(r)

SpecCreateRace == Init /\ [][NextCreateRace]_vars

\* uploads whose lookups and inserts interleave
NextUploadRace ==
    \/ \E r \in Requests,
          filename \in { <<"a", ".", "p", "n", "g">>, <<"b", ".", "P", "N", "G">>,
                         <<"a", ".", "m", "p", "3">> },
          content \in Contents, article_id \in {NULL, 1} :
          upload_file_begin(r, filename, content, NULL, no_text, TRUE, article_id, NULL)
    \/ \E r \in Requests : upload_file_finish(r)

SpecUploadRace == Init /\ [][NextUploadRace]_vars

\* content in a tree of active categories: creates, moves, reads and the refresh
NextCounts ==
    \/ \E parent_id \in {NULL, 1, 2} :
          create_category(<<"A">>, <<>>, parent_id, TRUE, FALSE, 0)
    \/ \E category_id \in Ids, new_parent_id \in {NULL, 1, 2} :
          move_category(category_id, new_parent_id)
    \/ \E category_id \in Ids : create_article(category_id)
    \/ \E category_id \in Ids : create_paper(category_id)
    \/ \E category_id \in IdInputs : get_category(category_id)
    \/ update_all_counts

SpecCounts == Init /\ [][NextCounts]_vars

\* the longest name drawn letter by letter
MaxNameLen == 3

\* the characters names are drawn from
NameChars == {"a", "A", "1", " ", "_", "-", ".", "&"}

\* names given to the slug derivation: every string over NameChars of up to
\* MaxNameLen characters and three longer ones
SlugifyInputs ==
    UNION {[1..n -> NameChars] : n \in 1..MaxNameLen}
    \cup { <<"M", "a", "c", "h", "i", "n", "e", " ", "L", "e", "a", "r", "n", "i", "n", "g">>,
           <<"P", "y", "t", "h", "o", "n", " ", "3", ".", "1", "2">>,
           <<"D", "a", "t", "a", " ", "S", "c", "i", "e", "n", "c", "e", " ", "&", " ", "A", "I">> }

\* a name about to be given to Category.create_slug_from_name
InitSlugify ==
    /\ cats = << >>
    /\ next_id = 1
    /\ articles = [i \in Ids |-> 0]
    /\ papers = [i \in Ids |-> 0]
    /\ \E name \in SlugifyInputs : last = [op |-> "name", name |-> name]
    /\ files = << >>
    /\ blobs = << >>
    /\ next_file_id = 1
    /\ pending = [r \in Requests |-> idle]

\* the call Category.create_slug_from_name(name)
slugify ==
    /\ last.op = "name"
    /\ last' = [op |-> "slug", name |-> last.name, slug |-> create_slug_from_name(last.name)]
    /\ UNCHANGED <<cats, next_id, articles, papers, files, blobs, next_file_id, pending>>

NextSlugify == slugify

SpecSlugify == InitSlugify /\ [][NextSlugify]_vars

\* sort orders given to categories whose order is read back
SortOrderInputs == {0, 1}

\* categories, active or not, with names and sort orders, and the children read
NextChildren ==
    \/ \E name \in Names, parent_id \in {NULL, 1, 2}, is_active \in BOOLEAN,
          sort_order \in SortOrderInputs :
          create_category(name, <<>>, parent_id, is_active, FALSE, sort_order)
    \/ \E category_id \in Ids : deactivate_category(category_id)
    \/ \E category_id \in IdInputs, skip \in {0, 1}, limit \in {1, DefaultLimit} :
          get_category_children(category_id, skip, limit)

SpecChildren == Init /\ [][NextChildren]_vars

\* uploads, edits, associations, visibility changes, lost blobs and downloads
NextDownload ==
    \/ \E content \in Contents, form \in UploadForms :
          upload_file(<<"a", ".", "p", "n", "g">>, content, NULL, form.description,
                      form.is_public, form.article_id, form.paper_id)
    \/ \E file_id \in FileIds, file_in \in {[is_public |-> FALSE], [paper_id |-> 2]} :
          update_file(file_id, file_in)
    \/ \E file_id \in FileIds : associate_file_with_article(file_id, 1)
    \/ \E file_ids \in SUBSET FileIds, is_public \in BOOLEAN :
          bulk_update_file_visibility(file_ids, is_public)
    \/ \E path \in DOMAIN blobs : lose_blob(path)
    \/ \E file_id \in FileIds : download_file(file_id)

SpecDownload == Init /\ [][NextDownload]_vars

\* uploads, deletes and the orphan cleanup of two requests, step by step
NextFileRace ==
    \/ \E r \in Requests, content \in Contents, article_id \in {NULL, 1} :
          upload_file_begin(r, <<"a", ".", "p", "n", "g">>, content, NULL, no_text, TRUE,
                            article_id, NULL)
    \/ \E r \in Requests : upload_file_write(r)
    \/ \E r \in Requests : upload_file_insert(r)
    \/ \E r \in Requests, file_id \in FileIds : delete_file_begin(r, file_id)
    \/ \E r \in Requests : delete_file_unlink(r)
    \/ \E r \in Requests : delete_file_remove(r)
    \/ cleanup_orphaned_files

SpecFileRace == Init /\ [][NextFileRace]_vars

(***************************************************************************)
(* Properties                                                              *)
(***************************************************************************)
\* the request the step answers is `op` on a stored category
answers(op) == last'.op = op /\ last'.id \in DOMAIN cats

\* C1: after any sequence of create and move requests every category's path is
\* its parent's path + "/" + its slug ("/" + slug for a root) and its level is
\* its parent's level + 1 (0 for a root).
C1_PathAndLevelFollowParent ==
    \A i \in DOMAIN cats :
        IF cats[i].parent_id \in DOMAIN cats
        THEN /\ cats[i].path = cats[cats[i].parent_id].path \o <<"/">> \o cats[i].slug
             /\ cats[i].level = cats[cats[i].parent_id].level + 1
        ELSE /\ cats[i].path = <<"/">> \o cats[i].slug
             /\ cats[i].level = 0

\* C2: for every category C and every D whose chain of parent references passes
\* through C, D.path starts with C.path + "/", so the prefix query
\* descendants(C) returns D.
C2_DescendantPathsHavePrefix ==
    \A c \in DOMAIN cats :
        \A d \in get_all_descendants_ids(cats, c) :
            /\ startswith(cats[d].path, cats[c].path \o <<"/">>)
            /\ d \in get_descendants(cats, cats[c].path)

\* C3: a move of a category under itself or under one of its descendants is
\* answered with the invalid-state error (400) and changes no category.
C3_MoveUnderOwnSubtreeRejected ==
    [][ ( /\ answers("move")
          /\ last'.parent_id \in {last'.id} \cup get_all_descendants_ids(cats, last'.id) )
        => ( last'.status = 400 /\ cats' = cats ) ]_vars

\* C4: a move under an active category that is neither the category itself nor
\* one of its descendants succeeds and leaves the category under the new parent,
\* one level below it, with the path parent path + "/" + slug.
C4_MoveUnderOtherCategorySucceeds ==
    [][ ( /\ answers("move")
          /\ last'.parent_id \in DOMAIN cats
          /\ cats[last'.parent_id].is_active
          /\ last'.parent_id \notin {last'.id} \cup get_all_descendants_ids(cats, last'.id) )
        => ( /\ last'.status = 200
             /\ last'.id \in DOMAIN cats'
             /\ cats'[last'.id].parent_id = last'.parent_id
             /\ cats'[last'.id].level = cats'[last'.parent_id].level + 1
             /\ cats'[last'.id].path =
                   cats'[last'.parent_id].path \o <<"/">> \o cats'[last'.id].slug ) ]_vars

\* C5: when a move succeeds, every descendant of the moved category, at every
\* depth, has path = its parent's new path + "/" + its slug and level = its
\* parent's new level + 1.
C5_MoveRecomputesAllDescendants ==
    [][ ( answers("move") /\ last'.status = 200 )
        => \A d \in get_all_descendants_ids(cats', last'.id) :
              /\ cats'[d].path = cats'[cats'[d].parent_id].path \o <<"/">> \o cats'[d].slug
              /\ cats'[d].level = cats'[cats'[d].parent_id].level + 1 ]_vars

\* the slugs of the rows of db
slugs_of(db) == {db[i].slug : i \in DOMAIN db}

\* s-k
suffixed(s, k) == s \o <<"-">> \o str_of_int(k)

\* C6: after any sequence of create requests no two categories share a slug;
\* when the requested or name-derived slug s is taken, the new category gets
\* the first unused slug of s-1, s-2, ...
C6_SlugsUniqueFirstUnusedSuffix ==
    /\ [](\A i, j \in DOMAIN cats : i # j => cats[i].slug # cats[j].slug)
    /\ [][ ( last'.op = "create" /\ last'.id \in DOMAIN cats' \ DOMAIN cats )
           => LET s   == last'.slug
                  new == cats'[last'.id].slug
              IN  IF s \notin slugs_of(cats) THEN new = s
                  ELSE \E k \in 1..(MaxId + 1) :
                          /\ new = suffixed(s, k)
                          /\ new \notin slugs_of(cats)
                          /\ \A j \in 1..(k - 1) : suffixed(s, j) \in slugs_of(cats) ]_vars

\* C6 witness: a category was stored under s-2 because s and s-1 were taken
C6_Witness ==
    /\ last.op = "create"
    /\ last.id \in DOMAIN cats
    /\ cats[last.id].slug = suffixed(last.slug, 2)
    /\ {last.slug, suffixed(last.slug, 1)} \subseteq slugs_of(cats)

\* C7: after deactivate(C) completes, C and every category whose parent chain
\* passes through C is inactive.
C7_DeactivateReachesAllDescendants ==
    [][ ( answers("deactivate") /\ last'.status = 200 )
        => \A d \in {last'.id} \cup get_all_descendants_ids(cats', last'.id) :
              ~cats'[d].is_active ]_vars

\* C8: activate is answered with the invalid-state error (400) and changes
\* nothing when the category's parent is inactive; otherwise it sets is_active
\* on that category only.
C8_ActivateChecksParentNoCascade ==
    [][ answers("activate")
        => IF /\ cats[last'.id].parent_id \in DOMAIN cats
              /\ ~cats[cats[last'.id].parent_id].is_active
           THEN last'.status = 400 /\ cats' = cats
           ELSE /\ last'.status = 200
                /\ DOMAIN cats' = DOMAIN cats
                /\ cats'[last'.id].is_active
                /\ \A i \in DOMAIN cats \ {last'.id} : cats'[i] = cats[i] ]_vars

\* C8 witness: an inactive category with an inactive child was activated and
\* the child is still inactive
C8_Witness ==
    /\ last.op = "activate"
    /\ last.status = 200
    /\ last.id \in DOMAIN cats
    /\ cats[last.id].is_active
    /\ \E d \in children(cats, last.id) : ~cats[d].is_active

C10_MissingOrInactiveParentRejected ==
    [][ ( /\ \/ last'.op = "create"
             \/ answers("move")
          /\ last'.parent_id # NULL
          /\ \/ last'.parent_id \notin DOMAIN cats
             \/ ~cats[last'.parent_id].is_active )
        => ( last'.status = 400 /\ cats' = cats ) ]_vars

\* the rows that hold the content with digest h
rows_with_hash(db, h) == {i \in DOMAIN db : db[i].file_hash = h}

\* C11: an upload of content that was uploaded before, under the same or
\* another file name, returns the id of the row the first upload created;
\* after every successful upload exactly one row holds the content's digest
\* and the blob store holds the content at that row's path.
C11_SameContentSameFile ==
    [][ last'.op = "upload" /\ last'.status = 200 =>
          LET h == last'.file_hash
          IN  /\ rows_with_hash(files', h) = {last'.id}
              /\ rows_with_hash(files, h) # {} =>
                     /\ rows_with_hash(files, h) = {last'.id}
                     /\ DOMAIN blobs' = DOMAIN blobs
              /\ files'[last'.id].file_path \in DOMAIN blobs'
              /\ get_file_hash(blobs'[files'[last'.id].file_path]) = h ]_vars

\* an upload found its content stored under another file name
C11_Witness ==
    /\ last.op = "upload"
    /\ last.status = 200
    /\ last.detail = "existing"
    /\ files[last.id].original_filename # last.filename

\* C12: an upload whose digest matches an existing row writes no blob,
\* creates no row and changes no field of any row; when it is accepted it
\* answers with the existing row's id.
C12_DedupLeavesRecordUnchanged ==
    [][ last'.op = "upload" /\ rows_with_hash(files, last'.file_hash) # {} =>
          /\ files' = files
          /\ blobs' = blobs
          /\ next_file_id' = next_file_id
          /\ last'.status = 200 => last'.id \in rows_with_hash(files, last'.file_hash) ]_vars

\* an upload found its content on a row that is associated with an article
C12_Witness ==
    /\ last.op = "upload"
    /\ last.detail = "existing"
    /\ files[last.id].article_id = 1
    /\ files[last.id].description = <<"d">>

\* the extensions of every file type
all_extensions == UNION {ALLOWED_EXTENSIONS[t] : t \in DOMAIN ALLOWED_EXTENSIONS}

\* C17: an upload with an empty file name, a declared size above the ceiling
\* or an extension outside the allow-list is rejected, and no blob is written
\* and no row created or changed.
C17_InvalidUploadRejectedUnchanged ==
    [][ /\ last'.op = "upload"
        /\ \/ last'.filename = <<>>
           \/ last'.size # NULL /\ last'.size > MAX_FILE_SIZE
           \/ str_lower(path_suffix(last'.filename)) \notin all_extensions
        => /\ last'.status \in {400, 413}
           /\ files' = files
           /\ blobs' = blobs
           /\ next_file_id' = next_file_id ]_vars

\* an upload was rejected for its extension while the store held files
C17_Witness ==
    /\ last.op = "upload"
    /\ last.status = 400
    /\ last.filename = <<"a", ".", "b", "a", "m">>
    /\ files # << >>

\* C13: an associate request on a stored file leaves the named association
\* field at the given target and the other one null; on a file id that is not
\* stored it answers 404 and changes no row.
C13_AssociateSetsOneClearsOther ==
    [][ last'.op \in {"associate_article", "associate_paper"} =>
          IF last'.id \in DOMAIN files
          THEN /\ last'.status = 200
               /\ DOMAIN files' = DOMAIN files
               /\ files'[last'.id].article_id =
                     (IF last'.op = "associate_article" THEN last'.target_id ELSE NULL)
               /\ files'[last'.id].paper_id =
                     (IF last'.op = "associate_paper" THEN last'.target_id ELSE NULL)
               /\ \A i \in DOMAIN files \ {last'.id} : files'[i] = files[i]
          ELSE /\ last'.status = 404
               /\ files' = files ]_vars

\* a file was associated with a paper while another file holds an article
C13_Witness ==
    /\ last.op = "associate_paper"
    /\ last.status = 200
    /\ files[last.id].paper_id = 2
    /\ files[last.id].article_id = NULL
    /\ \E i \in DOMAIN files : files[i].article_id # NULL

\* C14: no File row has both article_id and paper_id set.
C14_AtMostOneAssociation ==
    \A i \in DOMAIN files : files[i].article_id = NULL \/ files[i].paper_id = NULL

\* the rows with neither an article nor a paper
orphans(db) == {i \in DOMAIN db : db[i].article_id = NULL /\ db[i].paper_id = NULL}

\* C15: cleanup_orphaned deletes exactly the rows with neither association,
\* answers with their number and leaves the other rows as they were; no
\* orphan is left afterwards, and a cleanup right after a cleanup answers 0.
C15_CleanupDeletesExactlyOrphans ==
    [][ last'.op = "cleanup" =>
          /\ last'.status = 200
          /\ DOMAIN files' = DOMAIN files \ orphans(files)
          /\ \A i \in DOMAIN files' : files'[i] = files[i]
          /\ last'.count = Cardinality(orphans(files))
          /\ orphans(files') = {}
          /\ last.op = "cleanup" => last'.count = 0 ]_vars

\* a cleanup deleted an orphan and left an associated row in place
C15_Witness ==
    /\ last.op = "cleanup"
    /\ last.count = 1
    /\ files # << >>

C18_UpdateLeavesHierarchy ==
    [][ last'.op = "update" /\ last'.id \in DOMAIN cats =>
          /\ last'.id \in DOMAIN cats'
          /\ cats'[last'.id].parent_id = cats[last'.id].parent_id
          /\ cats'[last'.id].level = cats[last'.id].level
          /\ cats'[last'.id].path = cats[last'.id].path ]_vars

\* C19: however the lookups and commits of concurrent create requests
\* interleave, no two stored categories share a slug or a path; a request
\* that loses the race fails on the unique index and stores nothing.
C19_ConcurrentCreatesKeepSlugsUnique ==
    /\ [](\A i, j \in DOMAIN cats :
            i # j => cats[i].slug # cats[j].slug /\ cats[i].path # cats[j].path)
    /\ [][ last'.op = "create" /\ last'.status \notin {200, 400} =>
             /\ last'.status = 500
             /\ last'.detail = "unique constraint"
             /\ cats' = cats ]_vars

\* a create request lost the race for its slug
C19_Witness ==
    /\ last.op = "create"
    /\ last.status = 500
    /\ \E i \in DOMAIN cats : cats[i].slug = last.slug

\* C20: every upload that runs to its end answers 200 with the id of the one
\* row that holds its content, also when another upload of the same content
\* was looked up before either row was inserted; the blob at that row's path
\* holds the content.
C20_ConcurrentUploadsBothSucceed ==
    [][ last'.op = "upload" /\ last'.status # 0 =>
          /\ last'.status = 200
          /\ rows_with_hash(files', last'.file_hash) = {last'.id}
          /\ files'[last'.id].file_path \in DOMAIN blobs'
          /\ blobs'[files'[last'.id].file_path] = last'.file_hash.sha256 ]_vars

\* C21: a category that an article is linked to cannot be deleted: the delete
\* is answered with 400 and the category stays retrievable, also when no count
\* refresh ran after the article was created.
C21_CategoryWithArticleNotDeleted ==
    [][ answers("delete") /\ articles[last'.id] > 0
        => /\ last'.status = 400
           /\ get(cats', last'.id).id = last'.id ]_vars

\* C22: after a published article (a paper) is created with category_id = C,
\* the next read of C reports article_count >= 1 (paper_count >= 1) with no
\* refresh in between.
C22_ReadAfterCreateReportsContent ==
    [][ last'.op = "read" /\ last'.status = 200 /\ last.id = last'.id
        => /\ last.op = "create_article" => last'.article_count >= 1
           /\ last.op = "create_paper" => last'.paper_count >= 1 ]_vars

RECURSIVE chain(_, _, _)
\* the categories from id upwards along parent_id, at most n of them
chain(db, id, n) ==
    IF n = 0 \/ id \notin DOMAIN db THEN {}
    ELSE {id} \cup chain(db, db[id].parent_id, n - 1)

\* C24: after a move completes, the stored article_count and paper_count of
\* the old parent and its ancestors and of the new parent and its ancestors
\* equal the number of published articles and of papers linked to each.
C24_MoveRefreshesParentCounts ==
    [][ answers("move") /\ last'.status = 200
        => \A i \in chain(cats, cats[last'.id].parent_id, MaxId)
                    \cup chain(cats', cats'[last'.id].parent_id, MaxId) :
              /\ i \in DOMAIN cats'
              /\ cats'[i].article_count = articles[i]
              /\ cats'[i].paper_count = papers[i] ]_vars

\* C27: the count refresh stores, for every category, the number of published
\* articles and of papers linked to that category itself, and answers with the
\* number of categories whose stored counts it changed; a second refresh with
\* no content change in between answers 0.
C27_RefreshCountsPerNodeAndIdempotent ==
    [][ last'.op = "update_counts"
        => /\ DOMAIN cats' = DOMAIN cats
           /\ \A i \in DOMAIN cats' :
                 /\ cats'[i].article_count = articles[i]
                 /\ cats'[i].paper_count = papers[i]
           /\ last'.updated_count =
                 Cardinality({i \in DOMAIN cats :
                                 \/ cats[i].article_count # cats'[i].article_count
                                 \/ cats[i].paper_count # cats'[i].paper_count})
           /\ last.op = "update_counts" => last'.updated_count = 0 ]_vars

\* C27 witness: a refresh changed the stored counts of a category that has a
\* parent, and the parent's counts stayed at its own content
C27_Witness ==
    /\ last.op = "update_counts"
    /\ last.updated_count = 1
    /\ \E i \in DOMAIN cats :
          /\ cats[i].article_count + cats[i].paper_count = 1
          /\ cats[i].parent_id \in DOMAIN cats
          /\ cats[cats[i].parent_id].article_count + cats[cats[i].parent_id].paper_count = 0

\* C23: the slug derived from "Machine Learning" is "machine-learning", from
\* "Python 3.12" "python-3-12" and from a name of white space only "category";
\* the slug derived from any name is non-empty and has no upper-case letter,
\* no white space, no underscore, no two hyphens in a row and no hyphen at
\* either end.
C23_SlugExamplesAndShape ==
    last.op = "slug" =>
        /\ last.name = <<"M", "a", "c", "h", "i", "n", "e", " ", "L", "e", "a", "r", "n", "i", "n", "g">> => last.slug = <<"m", "a", "c", "h", "i", "n", "e", "-", "l", "e", "a", "r", "n", "i", "n", "g">>
        /\ last.name = <<"P", "y", "t", "h", "o", "n", " ", "3", ".", "1", "2">> => last.slug = <<"p", "y", "t", "h", "o", "n", "-", "3", "-", "1", "2">>
        /\ (\A i \in 1..Len(last.name) : last.name[i] = " ") => last.slug = <<"c", "a", "t", "e", "g", "o", "r", "y">>
        /\ last.slug # <<>>
        /\ \A i \in 1..Len(last.slug) : last.slug[i] \notin Upper \cup {" ", "_"}
        /\ \A i \in 1..(Len(last.slug) - 1) : ~(last.slug[i] = "-" /\ last.slug[i + 1] = "-")
        /\ last.slug[1] # "-"
        /\ last.slug[Len(last.slug)] # "-"

\* the items of a children read are in order and name no row twice
in_children_order(db, items) ==
    /\ \A i, j \in DOMAIN items : i # j => items[i] # items[j]
    /\ \A i, j \in DOMAIN items : i < j =>
          \/ db[items[i]].sort_order < db[items[j]].sort_order
          \/ /\ db[items[i]].sort_order = db[items[j]].sort_order
             /\ ~str_lt(db[items[j]].name, db[items[i]].name)

C28_NoActiveUnderInactive ==
    \A i \in DOMAIN cats :
        cats[i].is_active /\ cats[i].parent_id \in DOMAIN cats
        => cats[cats[i].parent_id].is_active

\* C30: download_count grows by exactly 1 on each successful download, and a
\* download succeeds exactly when the file is known, public and its blob is
\* present; a refused download leaves every row as it was; upload, update,
\* associate and visibility requests never change the download_count of a
\* file, and a new file starts at 0.
C30_DownloadCountFrame ==
    [][ /\ last'.op = "download" =>
             IF /\ last'.id \in DOMAIN files
                /\ files[last'.id].is_public
                /\ files[last'.id].file_path \in DOMAIN blobs
             THEN /\ last'.status = 200
                  /\ files'[last'.id].download_count = files[last'.id].download_count + 1
                  /\ \A i \in DOMAIN files \ {last'.id} : files'[i] = files[i]
                  /\ DOMAIN files' = DOMAIN files
             ELSE /\ last'.status \in {403, 404}
                  /\ files' = files
        /\ last'.op \in {"upload", "update_file", "associate_article", "associate_paper",
                         "visibility"} =>
             /\ \A i \in DOMAIN files :
                   i \in DOMAIN files' /\ files'[i].download_count = files[i].download_count
             /\ \A i \in DOMAIN files' \ DOMAIN files : files'[i].download_count = 0 ]_vars

\* C30 witness: a download of a file that was downloaded before was refused
\* because the file is no longer public
C30_Witness ==
    /\ last.op = "download"
    /\ last.status = 403
    /\ last.id \in DOMAIN files
    /\ files[last.id].download_count >= 1

\* C26: the blob write of an upload to a key at which a blob already exists
\* leaves the store unchanged, and writing the same bytes to the same key
\* twice leaves exactly one blob at that key: after every write the key holds
\* the written bytes, no other key appears and every other blob is untouched.
C26_BlobWriteIdempotent ==
    [][ \A r \in Requests :
          pending[r].op = "upload" /\ pending'[r] = idle
          => LET key == pending[r].file_in.file_path
             IN  /\ DOMAIN blobs' = DOMAIN blobs \cup {key}
                 /\ blobs'[key] = pending[r].content
                 /\ \A p \in DOMAIN blobs \ {key} : blobs'[p] = blobs[p]
                 /\ key \in DOMAIN blobs => blobs' = blobs ]_vars

\* C26 witness: an upload wrote its blob although another request had stored
\* the same content in between; the key holds that content once
C26_Witness ==
    /\ last.op = "upload"
    /\ last.status = 500
    /\ Cardinality({p \in DOMAIN blobs : blobs[p] = last.file_hash.sha256}) = 1

\* C29: in every state reached by upload, delete and orphan cleanup requests,
\* also between the blob-store step and the metadata step of a request and
\* with two requests in flight, every File row has a blob at its file_path.
C29_EveryRowHasBlob ==
    \A i \in DOMAIN files : files[i].file_path \in DOMAIN blobs

====
